---- MODULE Spec2Model ----
(***************************************************************************)
(* State machine of the AuthForm component (src/components/AuthForm.tsx):  *)
(* the React state of the form, its event handlers, and the external       *)
(* identity-provider calls that are in flight between a handler's `await`  *)
(* and its continuation.                                                   *)
(*                                                                         *)
(* Text values are sequences of one-character strings, so that emptiness,  *)
(* length and the e-mail pattern are computed on the characters.           *)
(***************************************************************************)
EXTENDS Integers, Sequences, FiniteSets, TLC

VARIABLES
    isLogin,              \* useState(true)
    formData,             \* useState<FormData>({name, email, password, confirmPassword})
    showPassword,         \* useState(false)
    showConfirmPassword,  \* useState(false)
    loading,              \* useState(false)
    errors,               \* useState<Partial<FormData>>({}): a function on a subset of Fields
    pending,              \* external calls awaited by a handler and not yet settled
    toasts,               \* toast() calls made by the handler step that led to this state
    toastFaulty           \* whether the notification sink may throw in this run

vars == <<isLogin, formData, showPassword, showConfirmPassword, loading,
          errors, pending, toasts, toastFaulty>>

----------------------------------------------------------------------------
(* Bounds of the model *)

\* resetPassword calls that may be in flight at once
MaxResets == 1

----------------------------------------------------------------------------
(* Text values *)

Fields == {"name", "email", "password", "confirmPassword"}

EmptyText == <<>>

EmptyForm ==
    [name |-> EmptyText, email |-> EmptyText,
     password |-> EmptyText, confirmPassword |-> EmptyText]

NoErrors == [f \in {} |-> ""]

\* Password of five characters: one short of the minimum.
Pw5 == <<"p", "p", "p", "p", "p">>
\* Password of exactly the minimum length.
Pw6 == <<"p", "p", "p", "p", "p", "p">>
\* Another password of the minimum length.
Pw6b == <<"q", "q", "q", "q", "q", "q">>
Pw7 == <<"p", "p", "p", "p", "p", "p", "p">>

EmailOk == <<"a", "@", "b", ".", "c">>
EmailBad == <<"a", "b">>

\* Values the user types in the full state machine.
NameValues == {EmptyText, <<"n">>}
EmailValues == {EmptyText, EmailBad, EmailOk}
PasswordValues == {EmptyText, Pw5, Pw6}
ConfirmValues == {EmptyText, Pw5, Pw6}

\* Larger value sets for the specification that exercises validateForm.
EmailValuesWide ==
    EmailValues \cup
    { <<"a", "@", "b">>,                      \* no dot part
      <<"@", "b", ".", "c">>,                 \* nothing before @
      <<"a", "@", ".", "c">>,                 \* nothing between @ and .
      <<"a", "@", "b", ".">>,                 \* nothing after .
      <<"a", ".", "b", "@", "c">>,            \* dot only before @
      <<"a", " ", "@", "b", ".", "c">>,       \* space before @
      <<"a", "@", "b", " ", ".", "c">>,       \* space before .
      <<"a", "@", " ", "b", ".", "c">>,       \* space after @, nothing non-space then
      <<"a", "@", "b", ".", " ">>,            \* space after .
      <<" ", "a", "@", "b", ".", "c", " ">>,  \* surrounded by spaces
      <<"a", " ", "b", "@", "c", ".", "d">>,  \* match starts after a space
      <<"@", "@", "@", ".", ".">>,            \* only @ and .
      <<"a", "@", "b", "@", "c", ".", "d">>,  \* two @
      <<" ">> }
PasswordValuesWide == {EmptyText, <<"p">>, Pw5, Pw6, Pw6b, Pw7}
NameValuesWide == {EmptyText, <<"n">>, <<" ">>}

ValuesOf(name) ==
    CASE name = "name" -> NameValues
      [] name = "email" -> EmailValues
      [] name = "password" -> PasswordValues
      [] name = "confirmPassword" -> ConfirmValues

----------------------------------------------------------------------------
(* validateForm *)

MinPasswordLength == 6

\* \S of the pattern: the only white-space character of the value sets is " ".
NonSpace(c) == c # " "

\* One step of the automaton of /\S+@\S+\.\S+/ :
\*   0 start, 1 inside the first \S+, 2 after '@', 3 inside the second \S+,
\*   4 after '.', 5 inside the third \S+ (a match has been found).
PatternStep(q, c) ==
    CASE q = 0 -> IF NonSpace(c) THEN {1} ELSE {}
      [] q = 1 -> (IF NonSpace(c) THEN {1} ELSE {}) \cup (IF c = "@" THEN {2} ELSE {})
      [] q = 2 -> IF NonSpace(c) THEN {3} ELSE {}
      [] q = 3 -> (IF NonSpace(c) THEN {3} ELSE {}) \cup (IF c = "." THEN {4} ELSE {})
      [] q = 4 -> IF NonSpace(c) THEN {5} ELSE {}
      [] q = 5 -> {5}

\* RegExp.prototype.test without anchors: a match may start at any position.
RECURSIVE PatternRun(_, _, _)
PatternRun(s, i, Q) ==
    IF 5 \in Q THEN TRUE
    ELSE IF i > Len(s) THEN FALSE
    ELSE PatternRun(s, i + 1, UNION {PatternStep(q, s[i]) : q \in Q \cup {0}})

EmailPatternTest(s) == PatternRun(s, 1, {})

\* validateForm with the password bound off by one.
validateForm_shortPassword(fd, login) ==
    LET emailErr == IF Len(fd.email) = 0 THEN <<"Email is required">>
                    ELSE IF ~EmailPatternTest(fd.email) THEN <<"Email is invalid">>
                    ELSE <<>>
        passwordErr == IF Len(fd.password) = 0 THEN <<"Password is required">>
                       ELSE IF Len(fd.password) < MinPasswordLength - 1
                            THEN <<"Password must be at least 6 characters">>
                       ELSE <<>>
        nameErr == IF ~login /\ Len(fd.name) = 0 THEN <<"Name is required">> ELSE <<>>
        confirmErr == IF login THEN <<>>
                      ELSE IF Len(fd.confirmPassword) = 0 THEN <<"Please confirm your password">>
                      ELSE IF fd.password # fd.confirmPassword THEN <<"Passwords do not match">>
                      ELSE <<>>
        slot == [name |-> nameErr, email |-> emailErr,
                 password |-> passwordErr, confirmPassword |-> confirmErr]
    IN  [f \in {g \in Fields : Len(slot[g]) > 0} |-> slot[f][1]]

\* validateForm that applies the registration rules in both modes.
validateForm_noModeGuard(fd, login) ==
    LET emailErr == IF Len(fd.email) = 0 THEN <<"Email is required">>
                    ELSE IF ~EmailPatternTest(fd.email) THEN <<"Email is invalid">>
                    ELSE <<>>
        passwordErr == IF Len(fd.password) = 0 THEN <<"Password is required">>
                       ELSE IF Len(fd.password) < MinPasswordLength
                            THEN <<"Password must be at least 6 characters">>
                       ELSE <<>>
        nameErr == IF Len(fd.name) = 0 THEN <<"Name is required">> ELSE <<>>
        confirmErr == IF Len(fd.confirmPassword) = 0 THEN <<"Please confirm your password">>
                      ELSE IF fd.password # fd.confirmPassword THEN <<"Passwords do not match">>
                      ELSE <<>>
        slot == [name |-> nameErr, email |-> emailErr,
                 password |-> passwordErr, confirmPassword |-> confirmErr]
    IN  [f \in {g \in Fields : Len(slot[g]) > 0} |-> slot[f][1]]

\* validateForm that tests the pattern and the length before emptiness, and
\* compares the passwords before looking for an empty confirmation.
validateForm_laterRuleFirst(fd, login) ==
    LET emailErr == IF ~EmailPatternTest(fd.email) THEN <<"Email is invalid">>
                    ELSE IF Len(fd.email) = 0 THEN <<"Email is required">>
                    ELSE <<>>
        passwordErr == IF Len(fd.password) < MinPasswordLength
                       THEN <<"Password must be at least 6 characters">>
                       ELSE IF Len(fd.password) = 0 THEN <<"Password is required">>
                       ELSE <<>>
        nameErr == IF ~login /\ Len(fd.name) = 0 THEN <<"Name is required">> ELSE <<>>
        confirmErr == IF login THEN <<>>
                      ELSE IF fd.password # fd.confirmPassword THEN <<"Passwords do not match">>
                      ELSE IF Len(fd.confirmPassword) = 0 THEN <<"Please confirm your password">>
                      ELSE <<>>
        slot == [name |-> nameErr, email |-> emailErr,
                 password |-> passwordErr, confirmPassword |-> confirmErr]
    IN  [f \in {g \in Fields : Len(slot[g]) > 0} |-> slot[f][1]]

\* The newErrors object built by validateForm from the fields and the mode:
\* each slot is <<message>> when a rule assigned the key and <<>> when none did.
validateForm(fd, login) ==
    LET emailErr == IF Len(fd.email) = 0 THEN <<"Email is required">>
                    ELSE IF ~EmailPatternTest(fd.email) THEN <<"Email is invalid">>
                    ELSE <<>>
        passwordErr == IF Len(fd.password) = 0 THEN <<"Password is required">>
                       ELSE IF Len(fd.password) < MinPasswordLength
                            THEN <<"Password must be at least 6 characters">>
                       ELSE <<>>
        nameErr == IF ~login /\ Len(fd.name) = 0 THEN <<"Name is required">> ELSE <<>>
        confirmErr == IF login THEN <<>>
                      ELSE IF Len(fd.confirmPassword) = 0 THEN <<"Please confirm your password">>
                      ELSE IF fd.password # fd.confirmPassword THEN <<"Passwords do not match">>
                      ELSE <<>>
        slot == [name |-> nameErr, email |-> emailErr,
                 password |-> passwordErr, confirmPassword |-> confirmErr]
    IN  [f \in {g \in Fields : Len(slot[g]) > 0} |-> slot[f][1]]

\* Object.keys(newErrors).length === 0
validateFormResult(fd, login) == DOMAIN validateForm(fd, login) = {}

----------------------------------------------------------------------------
(* External collaborators *)

ProviderMessage == "auth/provider-message"

\* The outcomes of one call of the identity provider SDK
\* (createUserWithEmailAndPassword, updateProfile, signInWithEmailAndPassword,
\* sendPasswordResetEmail): the promise resolves, or it rejects with an Error
\* that carries a message.
ProviderOutcomes ==
    { [ok |-> TRUE, message |-> ""],
      [ok |-> FALSE, message |-> ProviderMessage] }

\* signUp that does not wait for updateProfile.
signUp_ignoresProfile(create, update) ==
    IF ~create.ok
    THEN [threw |-> FALSE, user |-> "", error |-> create.message]
    ELSE [threw |-> FALSE, user |-> "uid", error |-> ""]

\* The result object of signUp ("" stands for null): the catch block turns a
\* rejection of the account creation or of updateProfile, which is called only
\* after the creation succeeded, into {user: null, error: error.message}.
signUp(create, update) ==
    IF ~create.ok
    THEN [threw |-> FALSE, user |-> "", error |-> create.message]
    ELSE IF ~update.ok
    THEN [threw |-> FALSE, user |-> "", error |-> update.message]
    ELSE [threw |-> FALSE, user |-> "uid", error |-> ""]

\* The result object of signIn.
signIn(p) ==
    IF ~p.ok
    THEN [threw |-> FALSE, user |-> "", error |-> p.message]
    ELSE [threw |-> FALSE, user |-> "uid", error |-> ""]

\* The result object of resetPassword.
resetPassword(p) ==
    IF ~p.ok
    THEN [threw |-> FALSE, success |-> FALSE, error |-> p.message]
    ELSE [threw |-> FALSE, success |-> TRUE, error |-> ""]

\* An awaited operation that throws instead of returning a result object.
ThrownFault == [threw |-> TRUE, user |-> "", error |-> ""]

ResetThrownFault == [threw |-> TRUE, success |-> FALSE, error |-> ""]

\* What the await of signIn / signUp in handleSubmit can give: a result
\* object, or a thrown fault.
SubmitOutcomes ==
    {signIn(p) : p \in ProviderOutcomes}
    \cup {signUp(p, q) : p \in ProviderOutcomes, q \in ProviderOutcomes}
    \cup {ThrownFault}

\* What the await of resetPassword in handleForgotPassword can give.
ResetOutcomes ==
    {resetPassword(p) : p \in ProviderOutcomes} \cup {ResetThrownFault}

\* Whether one toast() call throws.
ToastThrows == IF toastFaulty THEN BOOLEAN ELSE {FALSE}

Toast(title, description, variant) ==
    [title |-> title, description |-> description, variant |-> variant]

\* One call toast(t), recorded with whether the sink threw on it.
Shown(t, throws) ==
    <<[title |-> t.title, description |-> t.description,
       variant |-> t.variant, threw |-> throws]>>

RemoveAt(s, i) == SubSeq(s, 1, i - 1) \o SubSeq(s, i + 1, Len(s))

InFlight(ops) == {i \in 1..Len(pending) : pending[i].op \in ops}

----------------------------------------------------------------------------
(* Initial state: the useState initial values, nothing in flight *)

Init ==
    /\ isLogin = TRUE
    /\ formData = EmptyForm
    /\ showPassword = FALSE
    /\ showConfirmPassword = FALSE
    /\ loading = FALSE
    /\ errors = NoErrors
    /\ pending = <<>>
    /\ toasts = <<>>
    /\ toastFaulty = FALSE

\* The React state as one record.
View ==
    [isLogin |-> isLogin, formData |-> formData, showPassword |-> showPassword,
     showConfirmPassword |-> showConfirmPassword, loading |-> loading,
     errors |-> errors]

InitialView ==
    [isLogin |-> TRUE, formData |-> EmptyForm, showPassword |-> FALSE,
     showConfirmPassword |-> FALSE, loading |-> FALSE, errors |-> NoErrors]

\* The inputs rendered in the current mode: name and confirmPassword are
\* rendered only when !isLogin.
RenderedFields(login) == IF login THEN {"email", "password"} ELSE Fields

----------------------------------------------------------------------------
(* handleSubmit *)

\* A submit button that stays enabled during a submission.
SubmitEnabled_always == TRUE

\* The submit button is rendered with disabled={loading}.
SubmitEnabled == ~loading

\* Dispatch that always signs in.
SubmitCall_alwaysSignIn(login, fd) ==
    [op |-> "signIn", args |-> <<fd.email, fd.password>>]

\* The external call chosen by `if (isLogin)`, with its arguments.
SubmitCall(login, fd) ==
    IF login
    THEN [op |-> "signIn", args |-> <<fd.email, fd.password>>]
    ELSE [op |-> "signUp", args |-> <<fd.email, fd.password, fd.name>>]

\* handleSubmit that goes on after a failed validation.
handleSubmit_noEarlyReturn ==
    /\ SubmitEnabled
    /\ errors' = validateForm(formData, isLogin)
    /\ loading' = TRUE
    /\ pending' = Append(pending, SubmitCall(isLogin, formData))
    /\ toasts' = <<>>
    /\ UNCHANGED <<isLogin, formData, showPassword, showConfirmPassword, toastFaulty>>

\* handleSubmit up to its await: validateForm (with setErrors), the early
\* return, setLoading(true) and the start of the external call.
handleSubmit ==
    /\ SubmitEnabled
    /\ errors' = validateForm(formData, isLogin)
    /\ IF ~validateFormResult(formData, isLogin)
       THEN UNCHANGED <<loading, pending>>
       ELSE /\ loading' = TRUE
            /\ pending' = Append(pending, SubmitCall(isLogin, formData))
    /\ toasts' = <<>>
    /\ UNCHANGED <<isLogin, formData, showPassword, showConfirmPassword, toastFaulty>>

ErrorToast == Toast("Error", "Something went wrong. Please try again.", "destructive")

\* Failure toasts that replace the message of the provider by a fixed text.
ResultToast_genericMessage(op, outcome) ==
    IF op = "signIn"
    THEN IF outcome.error # ""
         THEN Toast("Login Failed", "Something went wrong. Please try again.", "destructive")
         ELSE Toast("Welcome back!", "You have successfully logged in.", "default")
    ELSE IF outcome.error # ""
         THEN Toast("Registration Failed", "Something went wrong. Please try again.", "destructive")
         ELSE Toast("Account Created!", "Your account has been created successfully.", "default")

\* Toasts chosen by the mode at the time the call settles.
ResultToast_currentMode(op, outcome) ==
    IF isLogin
    THEN IF outcome.error # ""
         THEN Toast("Login Failed", outcome.error, "destructive")
         ELSE Toast("Welcome back!", "You have successfully logged in.", "default")
    ELSE IF outcome.error # ""
         THEN Toast("Registration Failed", outcome.error, "destructive")
         ELSE Toast("Account Created!", "Your account has been created successfully.", "default")

\* The toast of the try block for a result that was returned.
ResultToast(op, outcome) ==
    IF op = "signIn"
    THEN IF outcome.error # ""
         THEN Toast("Login Failed", outcome.error, "destructive")
         ELSE Toast("Welcome back!", "You have successfully logged in.", "default")
    ELSE IF outcome.error # ""
         THEN Toast("Registration Failed", outcome.error, "destructive")
         ELSE Toast("Account Created!", "Your account has been created successfully.", "default")

\* A catch block that swallows the fault without a toast.
SubmitToasts_silentCatch(op, outcome, t1, t2) ==
    IF outcome.threw THEN <<>> ELSE Shown(ResultToast(op, outcome), t1)

\* The toasts shown by the continuation of handleSubmit: the toast of the try
\* block unless the call threw, then the toast of the catch block when the
\* call or the first toast threw.  t1, t2: whether these toast() calls throw.
SubmitToasts(op, outcome, t1, t2) ==
    (IF outcome.threw THEN <<>> ELSE Shown(ResultToast(op, outcome), t1))
    \o (IF outcome.threw \/ t1 THEN Shown(ErrorToast, t2) ELSE <<>>)

\* setLoading(false) at the end of the try block instead of in finally.
LoadingAfterSettle_noFinally(outcome, t1) == outcome.threw \/ t1

\* The value of loading after the continuation: finally { setLoading(false) }.
LoadingAfterSettle(outcome, t1) == FALSE

\* A continuation that empties the form after a success.
SubmitSettle_clearsForm(i, outcome, t1, t2) ==
    /\ i \in InFlight({"signIn", "signUp"})
    /\ pending' = RemoveAt(pending, i)
    /\ toasts' = SubmitToasts(pending[i].op, outcome, t1, t2)
    /\ loading' = LoadingAfterSettle(outcome, t1)
    /\ formData' = IF ~outcome.threw /\ outcome.error = "" THEN EmptyForm ELSE formData
    /\ UNCHANGED <<isLogin, showPassword, showConfirmPassword,
                   errors, toastFaulty>>

\* The continuation of handleSubmit after the awaited call pending[i] settles
\* with `outcome`.
SubmitSettle(i, outcome, t1, t2) ==
    /\ i \in InFlight({"signIn", "signUp"})
    /\ pending' = RemoveAt(pending, i)
    /\ toasts' = SubmitToasts(pending[i].op, outcome, t1, t2)
    /\ loading' = LoadingAfterSettle(outcome, t1)
    /\ UNCHANGED <<isLogin, formData, showPassword, showConfirmPassword,
                   errors, toastFaulty>>

handleSubmitSettle ==
    \E i \in 1..Len(pending), outcome \in SubmitOutcomes,
       t1 \in ToastThrows, t2 \in ToastThrows :
        SubmitSettle(i, outcome, t1, t2)

----------------------------------------------------------------------------
(* handleForgotPassword *)

\* handleForgotPassword that also marks the empty email field as in error.
handleForgotPassword_marksEmail ==
    /\ isLogin
    /\ IF Len(formData.email) = 0
       THEN /\ \E t \in ToastThrows :
                  toasts' = Shown(Toast("Email Required",
                                        "Please enter your email address first.",
                                        "destructive"), t)
            /\ errors' = [f \in DOMAIN errors \cup {"email"} |->
                             IF f = "email" THEN "Email is required" ELSE errors[f]]
            /\ UNCHANGED pending
       ELSE /\ Cardinality(InFlight({"resetPassword"})) < MaxResets
            /\ pending' = Append(pending, [op |-> "resetPassword",
                                           args |-> <<formData.email>>])
            /\ toasts' = <<>>
            /\ UNCHANGED errors
    /\ UNCHANGED <<isLogin, formData, showPassword, showConfirmPassword,
                   loading, toastFaulty>>

\* handleForgotPassword without the return after the "Email Required" toast.
handleForgotPassword_noReturn ==
    /\ isLogin
    /\ Cardinality(InFlight({"resetPassword"})) < MaxResets
    /\ \E t \in ToastThrows :
          toasts' = IF Len(formData.email) = 0
                    THEN Shown(Toast("Email Required",
                                     "Please enter your email address first.",
                                     "destructive"), t)
                    ELSE <<>>
    /\ pending' = Append(pending, [op |-> "resetPassword",
                                   args |-> <<formData.email>>])
    /\ UNCHANGED <<isLogin, formData, showPassword, showConfirmPassword,
                   loading, errors, toastFaulty>>

\* handleForgotPassword that shows a spinner: setLoading(true) before the call.
handleForgotPassword_setsLoading ==
    /\ isLogin
    /\ IF Len(formData.email) = 0
       THEN /\ \E t \in ToastThrows :
                  toasts' = Shown(Toast("Email Required",
                                        "Please enter your email address first.",
                                        "destructive"), t)
            /\ UNCHANGED <<pending, loading>>
       ELSE /\ Cardinality(InFlight({"resetPassword"})) < MaxResets
            /\ pending' = Append(pending, [op |-> "resetPassword",
                                           args |-> <<formData.email>>])
            /\ loading' = TRUE
            /\ toasts' = <<>>
    /\ UNCHANGED <<isLogin, formData, showPassword, showConfirmPassword,
                   errors, toastFaulty>>

\* handleForgotPassword up to its await.  The button is rendered only when
\* isLogin.
handleForgotPassword ==
    /\ isLogin
    /\ IF Len(formData.email) = 0
       THEN /\ \E t \in ToastThrows :
                  toasts' = Shown(Toast("Email Required",
                                        "Please enter your email address first.",
                                        "destructive"), t)
            /\ UNCHANGED pending
       ELSE /\ Cardinality(InFlight({"resetPassword"})) < MaxResets
            /\ pending' = Append(pending, [op |-> "resetPassword",
                                           args |-> <<formData.email>>])
            /\ toasts' = <<>>
    /\ UNCHANGED <<isLogin, formData, showPassword, showConfirmPassword,
                   loading, errors, toastFaulty>>

\* The continuation of handleForgotPassword: no try/catch, so a thrown fault
\* ends the handler without a toast.
\* A continuation that ends with setLoading(false), as that of handleSubmit.
ForgotPasswordSettle_clearsLoading(i, outcome, t) ==
    /\ i \in InFlight({"resetPassword"})
    /\ pending' = RemoveAt(pending, i)
    /\ toasts' = IF outcome.threw THEN <<>>
                 ELSE IF outcome.success
                 THEN Shown(Toast("Reset Email Sent",
                                  "Check your email for password reset instructions.",
                                  "default"), t)
                 ELSE Shown(Toast("Reset Failed", outcome.error, "destructive"), t)
    /\ loading' = FALSE
    /\ UNCHANGED <<isLogin, formData, showPassword, showConfirmPassword,
                   errors, toastFaulty>>

ForgotPasswordSettle(i, outcome, t) ==
    /\ i \in InFlight({"resetPassword"})
    /\ pending' = RemoveAt(pending, i)
    /\ toasts' = IF outcome.threw THEN <<>>
                 ELSE IF outcome.success
                 THEN Shown(Toast("Reset Email Sent",
                                  "Check your email for password reset instructions.",
                                  "default"), t)
                 ELSE Shown(Toast("Reset Failed", outcome.error, "destructive"), t)
    /\ UNCHANGED <<isLogin, formData, showPassword, showConfirmPassword,
                   loading, errors, toastFaulty>>

handleForgotPasswordSettle ==
    \E i \in 1..Len(pending), outcome \in ResetOutcomes, t \in ToastThrows :
        ForgotPasswordSettle(i, outcome, t)

----------------------------------------------------------------------------
(* handleInputChange, toggleForm, reveal toggles *)

\* handleInputChange that drops every error on an edit.
handleInputChange_clearsAll(name, value) ==
    /\ name \in RenderedFields(isLogin)
    /\ value # formData[name]
    /\ formData' = [formData EXCEPT ![name] = value]
    /\ errors' = IF name \in DOMAIN errors /\ errors[name] # ""
                 THEN NoErrors
                 ELSE errors
    /\ toasts' = <<>>
    /\ UNCHANGED <<isLogin, showPassword, showConfirmPassword, loading,
                   pending, toastFaulty>>

\* onChange of the input called `name`, whose new value is `value`.
handleInputChange(name, value) ==
    /\ name \in RenderedFields(isLogin)
    /\ value # formData[name]
    /\ formData' = [formData EXCEPT ![name] = value]
    /\ errors' = IF name \in DOMAIN errors /\ errors[name] # ""
                 THEN [f \in DOMAIN errors \cup {name} |->
                          IF f = name THEN "" ELSE errors[f]]
                 ELSE errors
    /\ toasts' = <<>>
    /\ UNCHANGED <<isLogin, showPassword, showConfirmPassword, loading,
                   pending, toastFaulty>>

Edit == \E name \in Fields : \E value \in ValuesOf(name) : handleInputChange(name, value)

\* toggleForm that keeps the error messages.
toggleFormResult_keepErrors(s) ==
    [s EXCEPT !.isLogin = ~s.isLogin, !.formData = EmptyForm,
              !.showPassword = FALSE, !.showConfirmPassword = FALSE]

\* toggleForm that leaves the reveal flags alone.
toggleFormResult_keepReveal(s) ==
    [s EXCEPT !.isLogin = ~s.isLogin, !.formData = EmptyForm,
              !.errors = NoErrors]

\* The React state after toggleForm ran in state s.
toggleFormResult(s) ==
    [s EXCEPT !.isLogin = ~s.isLogin, !.formData = EmptyForm,
              !.errors = NoErrors,
              !.showPassword = FALSE, !.showConfirmPassword = FALSE]

toggleForm ==
    /\ isLogin' = toggleFormResult(View).isLogin
    /\ formData' = toggleFormResult(View).formData
    /\ errors' = toggleFormResult(View).errors
    /\ showPassword' = toggleFormResult(View).showPassword
    /\ showConfirmPassword' = toggleFormResult(View).showConfirmPassword
    /\ loading' = toggleFormResult(View).loading
    /\ toasts' = <<>>
    /\ UNCHANGED <<pending, toastFaulty>>

\* onClick={() => setShowPassword(!showPassword)}
toggleShowPassword ==
    /\ showPassword' = ~showPassword
    /\ toasts' = <<>>
    /\ UNCHANGED <<isLogin, formData, showConfirmPassword, loading, errors,
                   pending, toastFaulty>>

\* onClick={() => setShowConfirmPassword(!showConfirmPassword)}, rendered
\* only when !isLogin.
toggleShowConfirmPassword ==
    /\ ~isLogin
    /\ showConfirmPassword' = ~showConfirmPassword
    /\ toasts' = <<>>
    /\ UNCHANGED <<isLogin, formData, showPassword, loading, errors,
                   pending, toastFaulty>>

----------------------------------------------------------------------------
(* Specifications *)

Next ==
    \/ handleSubmit
    \/ handleSubmitSettle
    \/ handleForgotPassword
    \/ handleForgotPasswordSettle
    \/ Edit
    \/ toggleForm
    \/ toggleShowPassword
    \/ toggleShowConfirmPassword

Spec == Init /\ [][Next]_vars

\* The same machine with a notification sink that may throw, and with every
\* awaited authenticate / createAccount call settling eventually.
InitFault ==
    /\ isLogin = TRUE
    /\ formData = EmptyForm
    /\ showPassword = FALSE
    /\ showConfirmPassword = FALSE
    /\ loading = FALSE
    /\ errors = NoErrors
    /\ pending = <<>>
    /\ toasts = <<>>
    /\ toastFaulty = TRUE

SpecFault == InitFault /\ [][Next]_vars /\ WF_vars(handleSubmitSettle)

\* validateForm on a wide range of field values: the form as the user has
\* filled it in (in Login mode name and confirmPassword are empty, since
\* toggleForm empties them and their inputs are not rendered), then submit.
InitValidate ==
    /\ isLogin \in BOOLEAN
    /\ formData \in [name : NameValuesWide, email : EmailValuesWide,
                     password : PasswordValuesWide,
                     confirmPassword : PasswordValuesWide]
    /\ isLogin => formData.name = EmptyText /\ formData.confirmPassword = EmptyText
    /\ showPassword = FALSE
    /\ showConfirmPassword = FALSE
    /\ loading = FALSE
    /\ errors = NoErrors
    /\ pending = <<>>
    /\ toasts = <<>>
    /\ toastFaulty = FALSE

NextValidate ==
    \/ handleSubmit
    \/ handleSubmitSettle

SpecValidate == InitValidate /\ [][NextValidate]_vars

----------------------------------------------------------------------------
(* Properties *)

SubmitOps == {"signIn", "signUp"}

\* A text has the shape x@y.z: an '@' preceded by a non-space character, then
\* one or more non-space characters, a '.', and a non-space character.
EmailShape(s) ==
    \E i \in 1..Len(s), j \in 1..Len(s) :
        /\ 1 < i /\ i + 1 < j /\ j < Len(s)
        /\ s[i] = "@" /\ s[j] = "."
        /\ s[i - 1] # " " /\ s[j + 1] # " "
        /\ \A k \in (i + 1)..(j - 1) : s[k] # " "

\* Every rule that applies to the mode is satisfied.
RulesHold(fd, login) ==
    /\ fd.email # <<>> /\ EmailShape(fd.email)
    /\ fd.password # <<>> /\ Len(fd.password) >= 6
    /\ ~login => /\ fd.name # <<>>
                 /\ fd.confirmPassword # <<>>
                 /\ fd.confirmPassword = fd.password

\* C1: a submit passes validation (and goes on to set loading) exactly when
\* every rule of the active mode is satisfied, it leaves errors empty exactly
\* then, and in Login mode the errors it produces have no name and no
\* confirmPassword entry.
C1_ValidateIffRules ==
    [][handleSubmit =>
        /\ loading' <=> RulesHold(formData, isLogin)
        /\ (DOMAIN errors' = {}) <=> RulesHold(formData, isLogin)
        /\ isLogin => DOMAIN errors' \cap {"name", "confirmPassword"} = {}]_vars

\* A registration whose e-mail matches only inside surrounding spaces passed.
C1_Witness ==
    /\ ~isLogin /\ loading /\ errors = NoErrors
    /\ formData.email = <<" ", "a", "@", "b", ".", "c", " ">>
    /\ formData.password = Pw6b
    /\ Len(pending) = 1 /\ pending[1].op = "signUp"

\* C2: a submit that fails validation starts no external call, leaves loading
\* as it was, makes no toast and changes nothing but errors, which becomes a
\* non-empty error set holding "Email is required" when email is empty.
C2_InvalidSubmitOnlySetsErrors ==
    [][(handleSubmit /\ ~RulesHold(formData, isLogin)) =>
        /\ pending' = pending
        /\ loading' = loading
        /\ toasts' = <<>>
        /\ UNCHANGED <<isLogin, formData, showPassword, showConfirmPassword>>
        /\ DOMAIN errors' # {}
        /\ formData.email = <<>> =>
              "email" \in DOMAIN errors' /\ errors'["email"] = "Email is required"]_vars

\* Login mode, empty email, a password typed in: submit left only the error.
C2_Witness ==
    /\ isLogin /\ ~loading /\ pending = <<>> /\ toasts = <<>>
    /\ formData.email = <<>> /\ formData.password = Pw6
    /\ DOMAIN errors = {"email"} /\ errors["email"] = "Email is required"

\* C3: a submit that passes validation starts exactly one external call,
\* signIn(email, password) in Login mode and signUp(email, password, name) in
\* Register mode, with the current field values; when such a call returns
\* success, its continuation makes exactly one toast, the positive one of the
\* operation.
C3_OneCallOnePositiveToast ==
    [][/\ (handleSubmit /\ RulesHold(formData, isLogin)) =>
            /\ Len(pending') = Len(pending) + 1
            /\ SubSeq(pending', 1, Len(pending)) = pending
            /\ pending'[Len(pending')] =
                  IF isLogin
                  THEN [op |-> "signIn",
                        args |-> <<formData.email, formData.password>>]
                  ELSE [op |-> "signUp",
                        args |-> <<formData.email, formData.password, formData.name>>]
       /\ \A i \in 1..Len(pending), outcome \in SubmitOutcomes,
             t1 \in ToastThrows, t2 \in ToastThrows :
            (SubmitSettle(i, outcome, t1, t2) /\ ~outcome.threw /\ outcome.error = "") =>
                /\ Len(toasts') = 1
                /\ toasts'[1].variant = "default"
                /\ ~toasts'[1].threw
                /\ toasts'[1].title = IF pending[i].op = "signIn"
                                      THEN "Welcome back!" ELSE "Account Created!"
                /\ Len(pending') = Len(pending) - 1]_vars

\* A registration has completed with its positive toast.
C3_Witness ==
    /\ ~isLogin /\ ~loading /\ pending = <<>>
    /\ Len(toasts) = 1 /\ toasts[1].title = "Account Created!"
    /\ formData.name = <<"n">>

\* C4: once loading is true it becomes false again, whatever the outcome of
\* the call and even when the toast calls of the continuation throw.
C4_LoadingEventuallyCleared == loading ~> ~loading

\* A continuation whose result toast and whose catch toast both threw has
\* run, and loading is false.
C4_Witness ==
    /\ toastFaulty /\ ~loading
    /\ Len(toasts) = 2 /\ toasts[1].threw /\ toasts[2].threw

\* C5: when the awaited signIn / signUp throws, the continuation leaves
\* loading false and makes exactly one toast: the destructive one with the
\* generic fallback message.
C5_ThrowGivesGenericToast ==
    [][\A i \in 1..Len(pending), outcome \in SubmitOutcomes,
          t1 \in ToastThrows, t2 \in ToastThrows :
            (SubmitSettle(i, outcome, t1, t2) /\ outcome.threw) =>
                /\ ~loading'
                /\ toasts' = <<[title |-> "Error",
                                description |-> "Something went wrong. Please try again.",
                                variant |-> "destructive",
                                threw |-> FALSE]>>]_vars

\* A submission has ended with the generic fallback toast.
C5_Witness ==
    /\ ~loading /\ pending = <<>>
    /\ Len(toasts) = 1
    /\ toasts[1].description = "Something went wrong. Please try again."
    /\ toasts[1].variant = "destructive"

\* C6: loading is true exactly when one signIn / signUp call is in flight,
\* and there are never two of them.
C6_LoadingIffOneSubmission ==
    Cardinality(InFlight(SubmitOps)) = IF loading THEN 1 ELSE 0

\* A sign-in is in flight while the form has been toggled and a second valid
\* registration is filled in: the submit button is disabled.
C6_Witness ==
    /\ loading /\ ~isLogin /\ RulesHold(formData, isLogin)
    /\ \E i \in 1..Len(pending) : pending[i].op = "signIn"

\* C7 as stated: no two external calls are ever in flight together.
C7_NoTwoCallsInFlight == Len(pending) <= 1

\* C7 as amended: of any two calls in flight together, at least one is a
\* resetPassword call; signIn / signUp calls never overlap each other.
C7_OverlapOnlyWithReset ==
    \A i \in 1..Len(pending), j \in 1..Len(pending) :
        i # j => pending[i].op = "resetPassword" \/ pending[j].op = "resetPassword"

\* A resetPassword call and a submission are in flight together.
C7_Witness ==
    /\ Len(pending) >= 2
    /\ \E i \in 1..Len(pending) : pending[i].op = "resetPassword"
    /\ \E i \in 1..Len(pending) : pending[i].op \in SubmitOps

\* C8: toggleForm flips the mode, empties the four fields and errors, sets
\* both reveal flags to false, leaves loading and the calls in flight as they
\* were, and makes no toast.
C8_ToggleFormEffect ==
    [][toggleForm =>
        /\ isLogin' = ~isLogin
        /\ formData' = [name |-> <<>>, email |-> <<>>,
                        password |-> <<>>, confirmPassword |-> <<>>]
        /\ DOMAIN errors' = {}
        /\ ~showPassword' /\ ~showConfirmPassword'
        /\ loading' = loading
        /\ pending' = pending
        /\ toasts' = <<>>]_vars

\* The form was toggled to Register while a sign-in was in flight: the form
\* is empty, the call is still pending and loading is still true.
C8_Witness ==
    /\ ~isLogin /\ loading /\ formData = EmptyForm /\ errors = NoErrors
    /\ ~showPassword /\ ~showConfirmPassword
    /\ Len(pending) = 1 /\ pending[1].op = "signIn"

\* C9 as stated: from Register mode, two toggles in succession give the
\* initial state.
C9_DoubleToggleIsInitial ==
    ~isLogin => toggleFormResult(toggleFormResult(View)) = InitialView

\* C9 as amended: two toggles in succession give the initial values of the
\* fields, errors and reveal flags, in the mode and with the loading flag the
\* form had before them.
C9_DoubleToggleClearsForm ==
    toggleFormResult(toggleFormResult(View)) =
        [isLogin |-> isLogin,
         formData |-> [name |-> <<>>, email |-> <<>>,
                       password |-> <<>>, confirmPassword |-> <<>>],
         showPassword |-> FALSE, showConfirmPassword |-> FALSE,
         loading |-> loading, errors |-> NoErrors]

\* Register mode with a filled form, error messages, revealed passwords and
\* a password reset in flight: a state two toggles are applied to.
C9_Witness ==
    /\ ~isLogin /\ showPassword /\ showConfirmPassword
    /\ formData.name # <<>> /\ DOMAIN errors # {}
    /\ Len(pending) = 1 /\ pending[1].op = "resetPassword"

\* C10: in Login mode errors has no name and no confirmPassword key.
C10_ErrorKeysOfMode ==
    isLogin => DOMAIN errors \cap {"name", "confirmPassword"} = {}

\* Login mode with both of its fields in error.
C10_Witness ==
    /\ isLogin
    /\ DOMAIN errors = {"email", "password"}
    /\ errors["email"] # "" /\ errors["password"] # ""


\* A field shows an error: its key is in errors with a non-empty message.
HasError(e, f) == f \in DOMAIN e /\ e[f] # ""

\* C11: an edit of field f to v sets f to v and leaves the other fields, the
\* mode, loading and the reveal flags alone; afterwards f shows no error, the
\* entry of every other field in errors is what it was, and errors is not
\* touched at all when f showed no error.
C11_EditTouchesOnlyItsField ==
    [][\A f \in Fields : \A v \in ValuesOf(f) :
        handleInputChange(f, v) =>
            /\ formData'[f] = v
            /\ \A g \in Fields \ {f} : formData'[g] = formData[g]
            /\ UNCHANGED <<isLogin, loading, showPassword, showConfirmPassword>>
            /\ ~HasError(errors', f)
            /\ \A g \in Fields \ {f} :
                  /\ g \in DOMAIN errors' <=> g \in DOMAIN errors
                  /\ g \in DOMAIN errors => errors'[g] = errors[g]
            /\ ~HasError(errors, f) => errors' = errors]_vars

\* The email was edited after a failed submit: its message is gone and the
\* message of the password is still there.
C11_Witness ==
    /\ formData.email # <<>>
    /\ "email" \in DOMAIN errors /\ errors["email"] = ""
    /\ HasError(errors, "password")


\* C12: a password-reset request with an empty email makes exactly one toast,
\* the destructive "Email Required", starts no call and changes neither
\* errors nor loading nor any other state, whatever the password is.
C12_ResetWithoutEmail ==
    [][(handleForgotPassword /\ formData.email = <<>>) =>
        /\ toasts' = <<[title |-> "Email Required",
                        description |-> "Please enter your email address first.",
                        variant |-> "destructive",
                        threw |-> FALSE]>>
        /\ pending' = pending
        /\ errors' = errors
        /\ loading' = loading
        /\ UNCHANGED <<isLogin, formData, showPassword, showConfirmPassword>>]_vars

\* "Email Required" was shown while a too short password was typed in and no
\* validation had run.
C12_Witness ==
    /\ Len(toasts) = 1 /\ toasts[1].title = "Email Required"
    /\ formData.email = <<>> /\ formData.password = Pw5
    /\ errors = NoErrors /\ pending = <<>>


C14_StructuredErrorToast ==
    [][\A i \in 1..Len(pending), outcome \in SubmitOutcomes,
          t1 \in ToastThrows, t2 \in ToastThrows :
            (SubmitSettle(i, outcome, t1, t2) /\ ~outcome.threw /\ outcome.error # "") =>
                /\ toasts' = <<[title |-> IF pending[i].op = "signIn"
                                          THEN "Login Failed"
                                          ELSE "Registration Failed",
                                description |-> outcome.error,
                                variant |-> "destructive",
                                threw |-> FALSE]>>
                /\ ~loading']_vars

\* A registration has failed with the message of the provider.
C14_Witness ==
    /\ ~loading /\ pending = <<>>
    /\ Len(toasts) = 1 /\ toasts[1].title = "Registration Failed"
    /\ toasts[1].description = ProviderMessage


\* The toasts are exactly one destructive toast.
OneDestructiveToast(ts) ==
    Len(ts) = 1 /\ ts[1].variant = "destructive" /\ ~ts[1].threw

C16_SuccessKeepsForm ==
    [][\A i \in 1..Len(pending), outcome \in SubmitOutcomes,
          t1 \in ToastThrows, t2 \in ToastThrows :
            (SubmitSettle(i, outcome, t1, t2) /\ ~outcome.threw /\ outcome.error = "") =>
                /\ formData' = formData
                /\ isLogin' = isLogin
                /\ errors' = errors
                /\ showPassword' = showPassword
                /\ showConfirmPassword' = showConfirmPassword
                /\ loading /\ ~loading']_vars

\* A sign-in has succeeded and the form still holds what was submitted, with
\* the password revealed.
C16_Witness ==
    /\ isLogin /\ ~loading /\ showPassword
    /\ Len(toasts) = 1 /\ toasts[1].title = "Welcome back!"
    /\ formData.email = EmailOk /\ formData.password = Pw6


\* The entry of field f in e is exactly `msgs`: absent when msgs is empty,
\* the one message of msgs otherwise.
EntryIs(e, f, msgs) ==
    IF msgs = {} THEN f \notin DOMAIN e ELSE f \in DOMAIN e /\ {e[f]} = msgs

\* C17: after a submit, whatever errors held before, each field has the
\* message of the first rule it breaks and no entry when it breaks none: an
\* empty email, password or confirmPassword gets its "required" message and
\* never the message of the later rule.
C17_ErrorsRecomputed ==
    [][handleSubmit =>
        /\ EntryIs(errors', "email",
              IF formData.email = <<>> THEN {"Email is required"}
              ELSE IF ~EmailShape(formData.email) THEN {"Email is invalid"}
              ELSE {})
        /\ EntryIs(errors', "password",
              IF formData.password = <<>> THEN {"Password is required"}
              ELSE IF Len(formData.password) < 6
                   THEN {"Password must be at least 6 characters"}
              ELSE {})
        /\ EntryIs(errors', "name",
              IF ~isLogin /\ formData.name = <<>> THEN {"Name is required"} ELSE {})
        /\ EntryIs(errors', "confirmPassword",
              IF isLogin THEN {}
              ELSE IF formData.confirmPassword = <<>>
                   THEN {"Please confirm your password"}
              ELSE IF formData.confirmPassword # formData.password
                   THEN {"Passwords do not match"}
              ELSE {})]_vars

\* A registration was submitted with everything right but an empty
\* confirmation: that is the only entry, with the "required" message.
C17_Witness ==
    /\ ~isLogin /\ ~loading
    /\ formData.password = Pw6 /\ formData.confirmPassword = <<>>
    /\ DOMAIN errors = {"confirmPassword"}
    /\ errors["confirmPassword"] = "Please confirm your password"


\* C18: toggleForm during a submission leaves the call in flight and loading
\* true; when the call settles in the other mode, its continuation makes
\* exactly one toast, that of the operation started at submit time, and sets
\* loading to false.
C18_ToggleDuringSubmission ==
    [][/\ (toggleForm /\ loading) =>
            /\ pending' = pending
            /\ loading'
            /\ \E j \in 1..Len(pending') : pending'[j].op \in SubmitOps
       /\ \A i \in 1..Len(pending), outcome \in SubmitOutcomes,
             t1 \in ToastThrows, t2 \in ToastThrows :
            (SubmitSettle(i, outcome, t1, t2) /\ (isLogin # (pending[i].op = "signIn"))) =>
                /\ Len(toasts') = 1
                /\ toasts'[1].title =
                      IF outcome.threw THEN "Error"
                      ELSE IF pending[i].op = "signIn"
                           THEN (IF outcome.error # "" THEN "Login Failed"
                                                       ELSE "Welcome back!")
                           ELSE (IF outcome.error # "" THEN "Registration Failed"
                                                       ELSE "Account Created!")
                /\ ~loading']_vars

\* The registration toast appears while the form is in Login mode, emptied
\* by the toggle.
C18_Witness ==
    /\ isLogin /\ ~loading /\ formData = EmptyForm
    /\ Len(toasts) = 1 /\ toasts[1].title = "Account Created!"


\* Exactly one of user and error of a result object is populated.
OneOfUserError(r) == (r.user # "") # (r.error # "")

\* C19: whatever the provider calls do, the result object that signIn or
\* signUp hands to the awaiting handler has exactly one of user and error,
\* and signUp gives a user only when both the account creation and
\* updateProfile succeeded.
C19_WrapperResults ==
    [][\A i \in 1..Len(pending), p \in ProviderOutcomes, q \in ProviderOutcomes,
          t1 \in ToastThrows, t2 \in ToastThrows :
            /\ (pending[i].op = "signIn" /\ SubmitSettle(i, signIn(p), t1, t2)) =>
                  /\ OneOfUserError(signIn(p))
                  /\ signIn(p).user # "" <=> p.ok
            /\ (pending[i].op = "signUp" /\ SubmitSettle(i, signUp(p, q), t1, t2)) =>
                  /\ OneOfUserError(signUp(p, q))
                  /\ signUp(p, q).user # "" <=> (p.ok /\ q.ok)]_vars

\* A registration with a name has been answered with an error by the wrapper.
C19_Witness ==
    /\ ~isLogin /\ formData.name = <<"n">>
    /\ Len(toasts) = 1 /\ toasts[1].title = "Registration Failed"
    /\ toasts[1].variant = "destructive"


\* C20: a message appears or changes only in a submit, which sets errors to
\* what validateForm computes; an edit leaves its field without a message and
\* a toggle leaves no message at all; password reset, the reveal toggles and
\* the continuations of the external calls leave errors alone.  Hence a
\* message shown for email, password or name is the one validateForm gives
\* for the current value, and a message of confirmPassword fits the current
\* confirmPassword.
C20_ErrorsOnlyFromValidate ==
    [][/\ (handleForgotPassword \/ handleForgotPasswordSettle \/ handleSubmitSettle
             \/ toggleShowPassword \/ toggleShowConfirmPassword) => errors' = errors
       /\ \A f \in Fields :
            (HasError(errors', f) /\ (~HasError(errors, f) \/ errors'[f] # errors[f]))
                => handleSubmit
       /\ handleSubmit =>
            \A f \in Fields :
                HasError(errors', f) =>
                    /\ f \in DOMAIN validateForm(formData, isLogin)
                    /\ errors'[f] = validateForm(formData, isLogin)[f]
       /\ \A f \in Fields : \A v \in ValuesOf(f) :
            handleInputChange(f, v) => ~HasError(errors', f)
       /\ toggleForm => \A f \in Fields : ~HasError(errors', f)
       /\ \A f \in {"email", "password", "name"} :
            HasError(errors, f) =>
                /\ f \in DOMAIN validateForm(formData, isLogin)
                /\ errors[f] = validateForm(formData, isLogin)[f]
       /\ HasError(errors, "confirmPassword") =>
            /\ ~isLogin
            /\ errors["confirmPassword"] = "Please confirm your password"
                  <=> formData.confirmPassword = <<>>]_vars

\* The message of an invalid email, set by a submit, is still there after the
\* password was revealed and a password reset was requested and failed.
C20_Witness ==
    /\ HasError(errors, "email") /\ errors["email"] = "Email is invalid"
    /\ showPassword
    /\ Len(toasts) = 1 /\ toasts[1].title = "Reset Failed"

====
